---- MODULE Spec2Model ----
(***************************************************************************)
(* Model of src/candleLoader.js: the CandleLoader controller, the scene    *)
(* graph it mutates and the GLTF loader whose callbacks drive it.          *)
(*                                                                         *)
(* Numbers.  Lengths, scales, intensities and angles of rotation are       *)
(* fixed-point integers counted in 1/Unit (1e-7); flameTime and deltaTime  *)
(* are counted in milliseconds; the argument of Sin is in milliradians    *)
(* and its value in thousandths.                                           *)
(***************************************************************************)
EXTENDS Integers, Sequences, FiniteSets, TLC

\* ---------------------------------------------------------------- bounds
MaxLoads == 2          \* loadCandle() calls in one behaviour
MaxAnimate == 2        \* animate() calls that find a flame to animate

\* ------------------------------------------------------------- numbers
Unit == 10 * 1000 * 1000

NULL == 0

\* Math.sin, by range reduction to [0, pi/2] and a 4-term Taylor series.
\* a is in milliradians, the result in thousandths.
SinTaylor(x) ==
    LET x2 == (x * x) \div 1000
        x3 == (x2 * x) \div 1000
        x5 == (x3 * x2) \div 1000
        x7 == (x5 * x2) \div 1000
    IN  x - (x3 \div 6) + (x5 \div 120) - (x7 \div 5040)

SinPos(a) ==
    LET r == a % 6283
        h == IF r > 3142 THEN r - 3142 ELSE r
        q == IF h > 1571 THEN 3142 - h ELSE h
    IN  IF r > 3142 THEN 0 - SinTaylor(q) ELSE SinTaylor(q)

Sin(a) == IF a < 0 THEN 0 - SinPos(0 - a) ELSE SinPos(a)

\* variant of TotalFlicker: the first wave is a cosine
TotalFlickerCos(t) ==
    LET flicker1 == Sin(t * 8 + 1571) * 300
        flicker2 == Sin((t * 25) \div 2) * 200
        flicker3 == Sin(t * 20) * 150
    IN  flicker1 + flicker2 + flicker3

\* totalFlicker at elapsed time t (ms), in 1/Unit:
\* sin(8t)*0.03 + sin(12.5t)*0.02 + sin(20t)*0.015
TotalFlicker(t) ==
    LET flicker1 == Sin(t * 8) * 300
        flicker2 == Sin((t * 25) \div 2) * 200
        flicker3 == Sin(t * 20) * 150
    IN  flicker1 + flicker2 + flicker3

\* ------------------------------------------------------------- inputs
\* options objects handed to loadCandle(); absent fields take the defaults
OptionSet ==
    { [k \in {} |-> 0],
      [x |-> 1 * Unit, y |-> 3 * Unit, z |-> 2 * Unit, scale |-> 2 * (Unit \div 10),
       rotation |-> 15708 * (Unit \div 10000)] }

\* positions handed to updatePosition()
PositionSet == { <<2 * Unit, Unit, 0 - Unit>> }

\* deltaTime values handed to animate(), in ms (16 is the default 0.016)
DeltaTimes == {0, 16}

\* errors the loader can report
ErrorSet == {"network"}

Opt(options, field, default) ==
    IF field \in DOMAIN options THEN options[field] ELSE default

\* ------------------------------------------------------------- state
VARIABLES
    candle, flame, flameLight,  \* this.candle, this.flame, this.flameLight
    mainFlame, innerFlame,      \* this.mainFlame, this.innerFlame
    flameTime,                  \* this.flameTime (ms)
    scene,                      \* this.scene.children, in order of attachment
    nodes,                      \* every Object3D ever created, by identity
    promises,                   \* the promises returned by loadCandle()
    fetches,                    \* the loader.load() requests and their closures
    hist                        \* history: animate() calls counted, the light's
                                \* load-time position and summed offsets, whether
                                \* a load ever succeeded over a loaded asset

vars == <<candle, flame, flameLight, mainFlame, innerFlame, flameTime,
          scene, nodes, promises, fetches, hist>>

ctrl == <<candle, flame, flameLight, mainFlame, innerFlame, flameTime>>

\* ------------------------------------------------------- scene graph
\* a new THREE.Object3D: position 0, scale 1, rotation 0, no children
Object3D(kind) ==
    [kind |-> kind, pos |-> <<0, 0, 0>>, scale |-> <<Unit, Unit, Unit>>,
     rotY |-> 0, intensity |-> 0, distance |-> 0, castShadow |-> FALSE,
     receiveShadow |-> FALSE, geom |-> <<0, 0, 0>>, children |-> <<>>]

IndexOf(seq, n) ==
    IF \E i \in 1..Len(seq) : seq[i] = n
    THEN CHOOSE i \in 1..Len(seq) : seq[i] = n /\ \A j \in 1..(i-1) : seq[j] # n
    ELSE 0

\* Object3D.remove(n): splice n out of the children, if it is there
RemoveChild(seq, n) ==
    LET i == IndexOf(seq, n)
    IN  IF i = 0 THEN seq
        ELSE [j \in 1..(Len(seq) - 1) |-> IF j < i THEN seq[j] ELSE seq[j + 1]]

\* Object3D.add(n): detach n from where it is, then push it
AddChild(seq, n) == Append(RemoveChild(seq, n), n)

Attached(n) == \E i \in 1..Len(scene) : scene[i] = n

Set3(v) == <<v, v, v>>

\* ------------------------------------------------------------ promise
\* resolve()/reject(): only a pending promise changes
Settle(ps, p, status, value) ==
    IF ps[p].status = "pending"
    THEN [ps EXCEPT ![p] = [status |-> status, value |-> value]]
    ELSE ps

\* ------------------------------------------------------------ actions
Init ==
    /\ candle = NULL
    /\ flame = NULL
    /\ flameLight = NULL
    /\ mainFlame = NULL
    /\ innerFlame = NULL
    /\ flameTime = 0
    /\ scene = <<1>>
    /\ nodes = <<Object3D("host")>>
    /\ promises = <<>>
    /\ fetches = <<>>
    /\ hist = [nAnim |-> 0, nAnimAll |-> 0, leaked |-> FALSE,
               lightLoad |-> <<0, 0, 0>>, drift |-> 0,
               zeroSinceLoad |-> TRUE, zeroEver |-> TRUE]

\* loadCandle(options): one promise, one loader.load() request
LoadCandle(options) ==
    LET p == Len(promises) + 1
    IN  /\ Len(promises) < MaxLoads
        /\ promises' = Append(promises, [status |-> "pending", value |-> NULL])
        /\ fetches' = Append(fetches,
              [promise |-> p,
               x |-> Opt(options, "x", 0),
               y |-> Opt(options, "y", 0),
               z |-> Opt(options, "z", 0),
               scale |-> Opt(options, "scale", Unit \div 10),
               rotation |-> Opt(options, "rotation", 0),
               done |-> FALSE])
        /\ UNCHANGED <<ctrl, scene, nodes, hist>>

\* variant of CreateFlame: the light is put at the flame group's position
CreateFlameLightAtFlame(x, y, z, candleScale, ns, sc, g) ==
    LET mainMesh == [Object3D("mesh") EXCEPT
                        !.geom = <<3 * (Unit \div 10), Unit, 8>>,
                        !.pos = <<0, 5 * (Unit \div 10), 0>>]
        innerMesh == [Object3D("mesh") EXCEPT
                        !.geom = <<15 * (Unit \div 100), 7 * (Unit \div 10), 8>>,
                        !.pos = <<0, 4 * (Unit \div 10), 0>>]
        flameHeight == 17 * candleScale
        group == [Object3D("group") EXCEPT
                        !.children = AddChild(AddChild(<<>>, g + 1), g + 2),
                        !.pos = <<x, y + flameHeight, z>>,
                        !.scale = Set3(candleScale * 2)]
        light == [Object3D("light") EXCEPT
                        !.intensity = 15 * (Unit \div 10),
                        !.distance = 10 * Unit,
                        !.pos = <<x, y + flameHeight, z>>,
                        !.castShadow = TRUE]
    IN  [nodes |-> ns \o <<group, mainMesh, innerMesh, light>>,
         scene |-> AddChild(AddChild(sc, g), g + 3),
         flame |-> g, mainFlame |-> g + 1, innerFlame |-> g + 2,
         flameLight |-> g + 3]

\* createFlame(x, y, z, candleScale) on the graph (ns, sc); g is the first
\* free identity.  Returns the graph and the references it stores.
CreateFlame(x, y, z, candleScale, ns, sc, g) ==
    LET mainMesh == [Object3D("mesh") EXCEPT
                        !.geom = <<3 * (Unit \div 10), Unit, 8>>,
                        !.pos = <<0, 5 * (Unit \div 10), 0>>]
        innerMesh == [Object3D("mesh") EXCEPT
                        !.geom = <<15 * (Unit \div 100), 7 * (Unit \div 10), 8>>,
                        !.pos = <<0, 4 * (Unit \div 10), 0>>]
        flameHeight == 17 * candleScale
        group == [Object3D("group") EXCEPT
                        !.children = AddChild(AddChild(<<>>, g + 1), g + 2),
                        !.pos = <<x, y + flameHeight, z>>,
                        !.scale = Set3(candleScale * 2)]
        light == [Object3D("light") EXCEPT
                        !.intensity = 15 * (Unit \div 10),
                        !.distance = 10 * Unit,
                        !.pos = <<x, y + flameHeight + 5 * (Unit \div 10), z>>,
                        !.castShadow = TRUE]
    IN  [nodes |-> ns \o <<group, mainMesh, innerMesh, light>>,
         scene |-> AddChild(AddChild(sc, g), g + 3),
         flame |-> g, mainFlame |-> g + 1, innerFlame |-> g + 2,
         flameLight |-> g + 3]

\* the loader's success callback of request i; gltf.scene is a new node
OnLoad(i) ==
    LET f == fetches[i]
        c == Len(nodes) + 1
        model == [Object3D("model") EXCEPT
                     !.pos = <<f.x, f.y, f.z>>,
                     !.scale = Set3(f.scale),
                     !.rotY = f.rotation,
                     !.castShadow = TRUE,
                     !.receiveShadow = TRUE]
        fl == CreateFlame(f.x, f.y, f.z, f.scale,
                          Append(nodes, model), AddChild(scene, c), c + 1)
    IN  /\ ~f.done
        /\ fetches' = [fetches EXCEPT ![i].done = TRUE]
        /\ candle' = c
        /\ flame' = fl.flame
        /\ mainFlame' = fl.mainFlame
        /\ innerFlame' = fl.innerFlame
        /\ flameLight' = fl.flameLight
        /\ nodes' = fl.nodes
        /\ scene' = fl.scene
        /\ promises' = Settle(promises, f.promise, "fulfilled", c)
        /\ hist' = [hist EXCEPT !.nAnim = 0,
                                !.leaked = @ \/ candle # NULL,
                                !.lightLoad = fl.nodes[fl.flameLight].pos,
                                !.drift = 0,
                                !.zeroSinceLoad = TRUE]
        /\ UNCHANGED flameTime

\* the loader's progress callback of request i: logs a percentage
OnProgress(i) ==
    /\ ~fetches[i].done
    /\ UNCHANGED vars

\* variant of OnError: rejects with an error of its own making
OnErrorOwnError(i, error) ==
    LET f == fetches[i]
    IN  /\ ~f.done
        /\ fetches' = [fetches EXCEPT ![i].done = TRUE]
        /\ promises' = Settle(promises, f.promise, "rejected", "failed")
        /\ UNCHANGED <<ctrl, scene, nodes, hist>>

\* variant of OnError: asks the loader again instead of rejecting
OnErrorRetry(i, error) ==
    LET f == fetches[i]
    IN  /\ ~f.done
        /\ Len(fetches) < 2 * MaxLoads
        /\ fetches' = Append([fetches EXCEPT ![i].done = TRUE], f)
        /\ UNCHANGED <<ctrl, scene, nodes, promises, hist>>

\* the loader's error callback of request i
OnError(i, error) ==
    LET f == fetches[i]
    IN  /\ ~f.done
        /\ fetches' = [fetches EXCEPT ![i].done = TRUE]
        /\ promises' = Settle(promises, f.promise, "rejected", error)
        /\ UNCHANGED <<ctrl, scene, nodes, hist>>

\* the fields removeCandle() reads and writes, as they are now
Here == [candle |-> candle, flame |-> flame, flameLight |-> flameLight,
         scene |-> scene]

\* variant of RemoveCandleOn: this.candle is not set to null
RemoveCandleKeepsRef(st) ==
    LET s1 == IF st.candle # NULL THEN RemoveChild(st.scene, st.candle) ELSE st.scene
        s2 == IF st.flame # NULL THEN RemoveChild(s1, st.flame) ELSE s1
        s3 == IF st.flameLight # NULL THEN RemoveChild(s2, st.flameLight) ELSE s2
    IN  [candle |-> st.candle, flame |-> NULL, flameLight |-> NULL, scene |-> s3]

\* variant of RemoveCandleOn: the light is dropped but not taken off the scene
RemoveCandleLeavesLight(st) ==
    LET s1 == IF st.candle # NULL THEN RemoveChild(st.scene, st.candle) ELSE st.scene
        s2 == IF st.flame # NULL THEN RemoveChild(s1, st.flame) ELSE s1
    IN  [candle |-> NULL, flame |-> NULL, flameLight |-> NULL, scene |-> s2]

\* variant of RemoveCandleOn: the three tests are chained with else
RemoveCandleElseIf(st) ==
    IF st.candle # NULL
    THEN [st EXCEPT !.scene = RemoveChild(st.scene, st.candle), !.candle = NULL]
    ELSE IF st.flame # NULL
    THEN [st EXCEPT !.scene = RemoveChild(st.scene, st.flame), !.flame = NULL]
    ELSE IF st.flameLight # NULL
    THEN [st EXCEPT !.scene = RemoveChild(st.scene, st.flameLight),
                    !.flameLight = NULL]
    ELSE st

\* what removeCandle() makes of the references and the scene st
RemoveCandleOn(st) ==
    LET s1 == IF st.candle # NULL THEN RemoveChild(st.scene, st.candle) ELSE st.scene
        s2 == IF st.flame # NULL THEN RemoveChild(s1, st.flame) ELSE s1
        s3 == IF st.flameLight # NULL THEN RemoveChild(s2, st.flameLight) ELSE s2
    IN  [candle |-> NULL, flame |-> NULL, flameLight |-> NULL, scene |-> s3]

\* removeCandle()
RemoveCandle ==
    LET r == RemoveCandleOn(Here)
    IN  /\ candle' = r.candle
        /\ flame' = r.flame
        /\ flameLight' = r.flameLight
        /\ scene' = r.scene
        /\ UNCHANGED <<mainFlame, innerFlame, flameTime, nodes, promises,
                       fetches, hist>>

\* variant of UpdatePosition: the flame group and the light follow the model
UpdatePositionMovesAll(x, y, z) ==
    /\ nodes' = IF candle # NULL
                THEN [nodes EXCEPT
                        ![candle].pos = <<x, y, z>>,
                        ![flame].pos = <<x, y + 17 * nodes[candle].scale[1], z>>,
                        ![flameLight].pos =
                           <<x, y + 17 * nodes[candle].scale[1] + Unit \div 2, z>>]
                ELSE nodes
    /\ UNCHANGED <<ctrl, scene, promises, fetches, hist>>

\* updatePosition(x, y, z)
UpdatePosition(x, y, z) ==
    /\ nodes' = IF candle # NULL
                THEN [nodes EXCEPT ![candle].pos = <<x, y, z>>]
                ELSE nodes
    /\ UNCHANGED <<ctrl, scene, promises, fetches, hist>>

\* variant of AnimateNodes: the light's height is taken from its load-time base
AnimateNodesFromBase(ns, t) ==
    LET totalFlicker == TotalFlicker(t)
        scaleVar == Unit + totalFlicker
        innerScale == Unit + (totalFlicker * 12) \div 10
        n1 == IF mainFlame # NULL
              THEN [ns EXCEPT ![mainFlame].scale = Set3(scaleVar),
                              ![mainFlame].pos[1] = Sin(t * 5) * 200]
              ELSE ns
        n2 == IF innerFlame # NULL
              THEN [n1 EXCEPT ![innerFlame].scale = Set3(innerScale),
                              ![innerFlame].pos[1] = Sin(t * 6) * 150]
              ELSE n1
        n3 == IF flameLight # NULL
              THEN [n2 EXCEPT ![flameLight].intensity =
                                  15 * (Unit \div 10) + totalFlicker * 2,
                              ![flameLight].pos[2] =
                                  hist.lightLoad[2] + totalFlicker \div 10]
              ELSE n2
    IN  n3

\* the body of animate() after the early return, at elapsed time t
AnimateNodes(ns, t) ==
    LET totalFlicker == TotalFlicker(t)
        scaleVar == Unit + totalFlicker
        innerScale == Unit + (totalFlicker * 12) \div 10
        n1 == IF mainFlame # NULL
              THEN [ns EXCEPT ![mainFlame].scale = Set3(scaleVar),
                              ![mainFlame].pos[1] = Sin(t * 5) * 200]
              ELSE ns
        n2 == IF innerFlame # NULL
              THEN [n1 EXCEPT ![innerFlame].scale = Set3(innerScale),
                              ![innerFlame].pos[1] = Sin(t * 6) * 150]
              ELSE n1
        n3 == IF flameLight # NULL
              THEN [n2 EXCEPT ![flameLight].intensity =
                                  15 * (Unit \div 10) + totalFlicker * 2,
                              ![flameLight].pos[2] =
                                  n2[flameLight].pos[2] + totalFlicker \div 10]
              ELSE n2
    IN  n3

\* variant of Animate: the early return tests this.mainFlame
AnimateStaleGuard(deltaTime) ==
    IF mainFlame = NULL
    THEN UNCHANGED vars
    ELSE /\ hist.nAnimAll < MaxAnimate
         /\ flameTime' = flameTime + deltaTime
         /\ nodes' = AnimateNodes(nodes, flameTime + deltaTime)
         /\ hist' = [hist EXCEPT
                !.nAnim = @ + 1,
                !.nAnimAll = @ + 1,
                !.drift = @ + TotalFlicker(flameTime + deltaTime) \div 10,
                !.zeroSinceLoad = @ /\ deltaTime = 0,
                !.zeroEver = @ /\ deltaTime = 0]
         /\ UNCHANGED <<candle, flame, flameLight, mainFlame, innerFlame,
                        scene, promises, fetches>>

\* animate(deltaTime)
Animate(deltaTime) ==
    IF flame = NULL \/ flameLight = NULL
    THEN UNCHANGED vars
    ELSE /\ hist.nAnimAll < MaxAnimate
         /\ flameTime' = flameTime + deltaTime
         /\ nodes' = AnimateNodes(nodes, flameTime + deltaTime)
         /\ hist' = [hist EXCEPT
                !.nAnim = @ + 1,
                !.nAnimAll = @ + 1,
                !.drift = @ + TotalFlicker(flameTime + deltaTime) \div 10,
                !.zeroSinceLoad = @ /\ deltaTime = 0,
                !.zeroEver = @ /\ deltaTime = 0]
         /\ UNCHANGED <<candle, flame, flameLight, mainFlame, innerFlame,
                        scene, promises, fetches>>

Next ==
    \/ \E options \in OptionSet : LoadCandle(options)
    \/ \E i \in 1..Len(fetches) : OnLoad(i)
    \/ \E i \in 1..Len(fetches) : OnProgress(i)
    \/ \E i \in 1..Len(fetches), e \in ErrorSet : OnError(i, e)
    \/ RemoveCandle
    \/ \E p \in PositionSet : UpdatePosition(p[1], p[2], p[3])
    \/ \E dt \in DeltaTimes : Animate(dt)

Spec == Init /\ [][Next]_vars

\* ------------------------------------------------------------ notions
\* the nodes this controller has put into the graph (the host's node is 1)
Owned == { n \in 1..Len(nodes) : nodes[n].kind \in {"model", "group", "light"} }

RefsNull == candle = NULL /\ flame = NULL /\ flameLight = NULL

\* the placement loadCandle() and createFlame() give to model c, flame group g
\* and light l for the request f, in the graph ns
Placed(f, ns, c, g, l) ==
    /\ ns[c].pos = <<f.x, f.y, f.z>>
    /\ ns[c].scale = <<f.scale, f.scale, f.scale>>
    /\ ns[g].pos = <<f.x, f.y + 17 * f.scale, f.z>>
    /\ ns[g].scale = <<2 * f.scale, 2 * f.scale, 2 * f.scale>>
    /\ ns[l].pos = <<f.x, f.y + 17 * f.scale + Unit \div 2, f.z>>

\* every visual parameter at its time-zero value
TimeZeroValues ==
    /\ TotalFlicker(flameTime) = 0
    /\ nodes[mainFlame].scale = <<Unit, Unit, Unit>>
    /\ nodes[innerFlame].scale = <<Unit, Unit, Unit>>
    /\ nodes[mainFlame].pos[1] = 0
    /\ nodes[innerFlame].pos[1] = 0
    /\ nodes[flameLight].intensity = 15 * (Unit \div 10)
    /\ nodes[flameLight].pos[2] = hist.lightLoad[2]

\* ------------------------------------------------------------------ C1
\* C1: in every reachable state the flame group reference and the light
\* reference are both non-null exactly when the model reference is non-null.
C1_FlameAndLightIffModel ==
    (flame # NULL /\ flameLight # NULL) <=> (candle # NULL)

\* a second asset is loaded, the first one having been removed
C1_Witness ==
    /\ Len(promises) = 2
    /\ promises[1].status = "fulfilled"
    /\ promises[2].status = "fulfilled"
    /\ ~Attached(promises[1].value)
    /\ candle = promises[2].value
    /\ flame # NULL /\ flameLight # NULL
    /\ ~hist.leaked

\* ------------------------------------------------------------------ C2
\* C2: the error callback rejects the promise with the loader's error, adds
\* no node to the scene, changes no node and leaves the three references as
\* they were (null stays null); and a success callback that comes after some
\* load has failed stores three new nodes, attaches them after everything
\* already attached and places them by its own request alone.
C2_FailureLeavesNothing ==
    [][ /\ \A i \in 1..Len(fetches), e \in ErrorSet :
              OnError(i, e) =>
                 /\ promises[fetches[i].promise].status = "pending"
                 /\ promises'[fetches[i].promise] =
                       [status |-> "rejected", value |-> e]
                 /\ scene' = scene
                 /\ nodes' = nodes
                 /\ <<candle, flame, flameLight>>' = <<candle, flame, flameLight>>
        /\ \A i \in 1..Len(fetches) :
              (OnLoad(i) /\
               \E q \in 1..Len(promises) : promises[q].status = "rejected") =>
                 /\ candle' # NULL /\ flame' # NULL /\ flameLight' # NULL
                 /\ {candle', flame', flameLight'} \cap (1..Len(nodes)) = {}
                 /\ scene' = scene \o <<candle', flame', flameLight'>>
                 /\ Placed(fetches[i], nodes', candle', flame', flameLight')
                 /\ promises'[fetches[i].promise] =
                       [status |-> "fulfilled", value |-> candle']
      ]_vars

\* the first load failed on an empty controller and the second one succeeded
C2_Witness ==
    /\ Len(promises) = 2
    /\ promises[1] = [status |-> "rejected", value |-> "network"]
    /\ promises[2].status = "fulfilled"
    /\ candle = promises[2].value
    /\ scene = <<1, candle, flame, flameLight>>

\* ------------------------------------------------------------------ C3
\* C3 as stated: whenever removeCandle() returns, the three references are
\* null and no node this controller ever added is attached.
C3_RemoveDetachesEverything ==
    [][ RemoveCandle => (RefsNull' /\ \A n \in Owned : ~Attached(n)') ]_vars

\* C3 as amended: removeCandle() nulls the three references and splices
\* exactly the nodes they referenced out of the scene; every node the
\* controller ever added is detached provided no load has ever succeeded
\* while an asset was already loaded.
C3_RemoveDetachesReferenced ==
    [][ RemoveCandle =>
          /\ RefsNull'
          /\ scene' = SelectSeq(scene,
                         LAMBDA n : n \notin ({candle, flame, flameLight} \ {NULL}))
          /\ \A n \in {candle, flame, flameLight} \ {NULL} : ~Attached(n)'
          /\ (~hist.leaked => \A n \in Owned : ~Attached(n)')
      ]_vars

\* removeCandle() has detached the three nodes of a loaded asset
C3_Witness ==
    /\ RefsNull
    /\ ~hist.leaked
    /\ scene = <<1>>
    /\ \E p \in 1..Len(promises) :
          /\ promises[p].status = "fulfilled"
          /\ nodes[promises[p].value].kind = "model"

\* ------------------------------------------------------------------ C4
\* C4: with the three references null, animate() and updatePosition() change
\* neither the scene nor any node, and the references stay null.
C4_NoAssetNoEffect ==
    [][ \A dt \in DeltaTimes, p \in PositionSet :
          ((Animate(dt) \/ UpdatePosition(p[1], p[2], p[3])) /\ RefsNull) =>
             /\ scene' = scene
             /\ nodes' = nodes
             /\ RefsNull'
      ]_vars

\* an asset that had been animated was removed while another load is pending:
\* the stale meshes are still referenced, and animate() and updatePosition()
\* find nothing loaded
C4_Witness ==
    /\ RefsNull
    /\ mainFlame # NULL
    /\ nodes[mainFlame].scale # <<Unit, Unit, Unit>>
    /\ flameTime > 0
    /\ \E i \in 1..Len(fetches) : ~fetches[i].done
    /\ ENABLED Animate(16)

\* ------------------------------------------------------------------ C5
\* C5: removeCandle() applied to the outcome of removeCandle() gives that
\* outcome again, from every reachable state, loaded or not.
C5_RemoveIdempotent ==
    RemoveCandleOn(RemoveCandleOn(Here)) = RemoveCandleOn(Here)

\* removeCandle() has emptied a loaded controller: a second call meets this
\* state
C5_Witness ==
    /\ RefsNull
    /\ Here = RemoveCandleOn(Here)
    /\ \E p \in 1..Len(promises) :
          /\ promises[p].status = "fulfilled"
          /\ ~Attached(promises[p].value)

\* ------------------------------------------------------------------ C6
\* C6 as stated: with an asset loaded and only animate(0) calls since that
\* load, every visual parameter is at its time-zero value.
C6_ZeroSinceLoad ==
    (candle # NULL /\ hist.nAnim > 0 /\ hist.zeroSinceLoad) => TimeZeroValues

\* C6 as amended: with an asset loaded and only animate(0) calls on loaded
\* assets since the controller was constructed, every visual parameter is at
\* its time-zero value.
C6_ZeroSinceConstruction ==
    (candle # NULL /\ hist.zeroEver) => TimeZeroValues

\* animate(0) has been called twice on the second asset of a controller
C6_Witness ==
    /\ hist.nAnim = 2
    /\ hist.zeroEver
    /\ Len(promises) = 2
    /\ promises[1].status = "fulfilled"
    /\ candle = promises[2].value

\* ------------------------------------------------------------------ C7
\* C7: when the success callback fulfils the promise, the model is at
\* (x, y, z) with scale (s, s, s), the flame group at (x, y + 17s, z) with
\* scale (2s, 2s, 2s), and the light at (x, y + 17s + 0.5, z): 0.5 above the
\* flame group and level with it on the other two axes.
C7_PlacementAtFulfilment ==
    [][ \A i \in 1..Len(fetches) :
          LET f == fetches[i]
          IN  (OnLoad(i) /\ promises'[f.promise].status = "fulfilled") =>
                /\ promises'[f.promise].value = candle'
                /\ nodes'[candle'].pos = <<f.x, f.y, f.z>>
                /\ nodes'[candle'].scale = <<f.scale, f.scale, f.scale>>
                /\ nodes'[flame'].pos = <<f.x, f.y + 17 * f.scale, f.z>>
                /\ nodes'[flame'].scale = <<2 * f.scale, 2 * f.scale, 2 * f.scale>>
                /\ nodes'[flameLight'].pos[1] = nodes'[flame'].pos[1]
                /\ nodes'[flameLight'].pos[2] = nodes'[flame'].pos[2] + Unit \div 2
                /\ nodes'[flameLight'].pos[3] = nodes'[flame'].pos[3]
      ]_vars

\* a load with every field given has just been fulfilled: nothing has been
\* animated or moved since
C7_Witness ==
    /\ candle # NULL
    /\ hist.nAnim = 0
    /\ \E p \in 1..Len(promises) : promises[p] = [status |-> "fulfilled",
                                                  value |-> candle]
    /\ nodes[candle].pos = <<Unit, 3 * Unit, 2 * Unit>>
    /\ nodes[candle].scale = Set3(2 * (Unit \div 10))
    /\ nodes[flame].pos = <<Unit, 64 * (Unit \div 10), 2 * Unit>>
    /\ nodes[flameLight].pos = <<Unit, 69 * (Unit \div 10), 2 * Unit>>

\* ------------------------------------------------------------------ C8
\* C8: updatePosition(x, y, z) with an asset loaded puts the model at
\* (x, y, z) and changes nothing else: not the flame group, not the light,
\* not the elapsed time, not the references, not the scene.
C8_UpdateMovesModelOnly ==
    [][ \A p \in PositionSet :
          (UpdatePosition(p[1], p[2], p[3]) /\ candle # NULL) =>
             /\ nodes'[candle].pos = p
             /\ nodes' = [nodes EXCEPT ![candle].pos = p]
             /\ nodes'[flame] = nodes[flame]
             /\ nodes'[flameLight] = nodes[flameLight]
             /\ ctrl' = ctrl
             /\ scene' = scene
      ]_vars

\* the model of a loaded asset has been moved away from under its flame
C8_Witness ==
    /\ candle # NULL
    /\ nodes[candle].pos = <<2 * Unit, Unit, 0 - Unit>>
    /\ nodes[flame].pos[1] # nodes[candle].pos[1]
    /\ nodes[flameLight].pos[1] # nodes[candle].pos[1]
    /\ Attached(candle)

\* ------------------------------------------------------------------ C9
\* C9: every promise has exactly one request to the loader and no callback
\* issues another; a settled promise never changes; the success callback
\* fulfils the promise with the model, and then model, flame group and light
\* are attached, in that order; the error callback rejects the promise.
C9_OneFetchOneSettlement ==
    [][ /\ \A p \in 1..Len(promises') :
              Cardinality({i \in 1..Len(fetches') : fetches'[i].promise = p}) = 1
        /\ \A p \in 1..Len(promises) :
              promises[p].status # "pending" => promises'[p] = promises[p]
        /\ \A i \in 1..Len(fetches) :
              OnLoad(i) =>
                 /\ promises[fetches[i].promise].status = "pending"
                 /\ promises'[fetches[i].promise] =
                       [status |-> "fulfilled", value |-> candle']
                 /\ Attached(candle)' /\ Attached(flame)' /\ Attached(flameLight)'
                 /\ IndexOf(scene', candle') < IndexOf(scene', flame')
                 /\ IndexOf(scene', flame') < IndexOf(scene', flameLight')
                 /\ Len(fetches') = Len(fetches)
        /\ \A i \in 1..Len(fetches), e \in ErrorSet :
              OnError(i, e) =>
                 /\ promises[fetches[i].promise].status = "pending"
                 /\ promises'[fetches[i].promise].status = "rejected"
                 /\ Len(fetches') = Len(fetches)
      ]_vars

\* both promises of a controller are settled, one each way, by one request
\* each
C9_Witness ==
    /\ Len(promises) = 2
    /\ Len(fetches) = 2
    /\ promises[1].status = "fulfilled"
    /\ promises[2].status = "rejected"
    /\ fetches[1].done /\ fetches[2].done

\* ----------------------------------------------------------------- C10
\* C10: animate(dt) on a loaded asset adds dt to the elapsed time, sets the
\* light's intensity to 1.5 + 2*flicker and adds 0.1*flicker to the vertical
\* position the light had before the call, leaving its other two coordinates
\* alone; hence the light stands at its load-time position plus 0.1 times the
\* sum of the flicker values of all animate() calls since the load.
C10_LightDriftAccumulates ==
    [][ /\ \A dt \in DeltaTimes :
              (Animate(dt) /\ flame # NULL /\ flameLight # NULL) =>
                 /\ flameTime' = flameTime + dt
                 /\ nodes'[flameLight].intensity =
                       15 * (Unit \div 10) + 2 * TotalFlicker(flameTime')
                 /\ nodes'[flameLight].pos[2] =
                       nodes[flameLight].pos[2] + TotalFlicker(flameTime') \div 10
                 /\ TotalFlicker(flameTime') % 10 = 0
        /\ (flameLight' # NULL =>
              /\ nodes'[flameLight'].pos[1] = hist'.lightLoad[1]
              /\ nodes'[flameLight'].pos[3] = hist'.lightLoad[3]
              /\ nodes'[flameLight'].pos[2] = hist'.lightLoad[2] + hist'.drift)
      ]_vars

\* after two animate() calls the light is not at its load-time position plus
\* 0.1 times the latest flicker value
C10_Witness ==
    /\ flameLight # NULL
    /\ hist.nAnim = 2
    /\ TotalFlicker(flameTime) # 0
    /\ nodes[flameLight].intensity = 15 * (Unit \div 10) + 2 * TotalFlicker(flameTime)
    /\ nodes[flameLight].pos[2] #
          hist.lightLoad[2] + TotalFlicker(flameTime) \div 10

====
